---- MODULE Spec2Model ----
(***************************************************************************)
(* Model of edge_anamoly_detector.py: the sampler generate_sensor_data,    *)
(* the checker detect_anomalies, the summarizer health_status and the      *)
(* driver main.                                                            *)
(*                                                                         *)
(* Every sensor value is held as an integer number of hundredths           *)
(* (24.0 is 2400, 0.05 is 5), the unit round(x, 2) produces.  A value      *)
(* that is not yet rounded is an exact fraction [num, den] of hundredths.  *)
(* Rounding is to the nearest hundredth on the exact value.  A value       *)
(* exactly half way between two hundredths goes to the even one; Python    *)
(* rounds the binary float, which lies just above or just below such a     *)
(* value, so there the model and the program may differ by one hundredth.  *)
(* No property below depends on how a tie is rounded.                      *)
(***************************************************************************)
EXTENDS Integers, Sequences, FiniteSets

VARIABLES pc, i, data, log, anomalies, console, summary, file

vars == <<pc, i, data, log, anomalies, console, summary, file>>

(***************************************************************************)
(* Bounds of the model.                                                    *)
(***************************************************************************)
\* random.random() is sampled at the fractions u / RandomSteps, u in 0..RandomSteps
RandomSteps == 4
\* readings handed to detect_anomalies lie within Margin hundredths of a limit
Margin == 1
\* logs handed to health_status on their own have at most MaxLog entries
MaxLog == 3

(***************************************************************************)
(* Configuration.                                                          *)
(***************************************************************************)
SENSOR_CONFIG ==
    [temperature |-> [min |-> 1900,  max |-> 2400],
     vibration   |-> [min |-> 10,    max |-> 100],
     voltage     |-> [min |-> 11000, max |-> 12500]]

READINGS == 10

\* the arguments of the three random.uniform calls of generate_sensor_data
UNIFORM_ARGS ==
    [temperature |-> [a |-> 1850,  b |-> 2450],
     vibration   |-> [a |-> 5,     b |-> 110],
     voltage     |-> [a |-> 10800, b |-> 12700]]

\* values that stand for a raised exception and for "not assigned yet"
KeyError == [error |-> "KeyError"]
StatisticsError == [error |-> "StatisticsError"]
None == [none |-> TRUE]

(***************************************************************************)
(* Arithmetic helpers.                                                     *)
(***************************************************************************)
\* random.uniform(a, b) = a + (b - a) * random(), with random() = u / RandomSteps.
\* u = RandomSteps stands for the draws whose result rounds to the end point b.
uniform(a, b, u) == [num |-> a * RandomSteps + (b - a) * u, den |-> RandomSteps]

\* round(x, 2) of the non-negative fraction x = num / den of hundredths
round2(x) ==
    LET q == x.num \div x.den
        r == x.num % x.den
    IN  IF 2 * r < x.den THEN q
        ELSE IF 2 * r > x.den THEN q + 1
        ELSE IF q % 2 = 0 THEN q ELSE q + 1

\* the sum of the first k values
RECURSIVE SumTo(_, _)
SumTo(values, k) == IF k = 0 THEN 0 ELSE values[k] + SumTo(values, k - 1)

SumSeq(values) == SumTo(values, Len(values))

MaxSeq(values) ==
    CHOOSE v \in {values[k] : k \in 1..Len(values)} :
        \A k \in 1..Len(values) : values[k] <= v

MinSeq(values) ==
    CHOOSE v \in {values[k] : k \in 1..Len(values)} :
        \A k \in 1..Len(values) : values[k] >= v

\* a running average, avg = (avg + x) / 2, in place of the mean
RECURSIVE mean_running(_)
mean_running(values) ==
    IF Len(values) < 1 THEN StatisticsError
    ELSE IF Len(values) = 1 THEN [num |-> values[1], den |-> 1]
    ELSE LET front == mean_running(SubSeq(values, 1, Len(values) - 1))
         IN  [num |-> front.num + values[Len(values)] * front.den,
              den |-> 2 * front.den]

\* statistics.mean: the exact sum over the count; StatisticsError on no data
mean(values) ==
    IF Len(values) < 1 THEN StatisticsError
    ELSE [num |-> SumSeq(values), den |-> Len(values)]

\* round(sqrt(num / den), 2) in hundredths, for a root of at most hi: the
\* whole number nearest to the root, the even one of two equally near
RoundSqrt(num, den, hi) ==
    CHOOSE r \in 0..hi :
        /\ \/ r = 0
           \/ (2 * r - 1) * (2 * r - 1) * den < 4 * num
           \/ (2 * r - 1) * (2 * r - 1) * den = 4 * num /\ r % 2 = 0
        /\ \/ 4 * num < (2 * r + 1) * (2 * r + 1) * den
           \/ 4 * num = (2 * r + 1) * (2 * r + 1) * den /\ r % 2 = 0

\* sum((x - mean)^2) * n: with S the sum of the n values,
\* sum((x - S/n)^2) = sum((n*x - S)^2) / n^2, and the numerator is a multiple
\* of n.  (S is bound by the set constructor, to be evaluated once.)
SumSquares(values) ==
    CHOOSE ss \in {SumSeq([k \in 1..Len(values) |->
                              (Len(values) * values[k] - S) * (Len(values) * values[k] - S)])
                       \div Len(values) : S \in {SumSeq(values)}} : TRUE

\* round(statistics.stdev(values), 2): the sample standard deviation
\* sqrt(sum((x - mean)^2) / (n - 1)); StatisticsError below two data points.
\* No deviation exceeds the spread of the values.
round_stdev(values) ==
    IF Len(values) < 2 THEN StatisticsError
    ELSE CHOOSE sd \in {RoundSqrt(ss, Len(values) * (Len(values) - 1), spread) :
                            ss \in {SumSquares(values)},
                            spread \in {MaxSeq(values) - MinSeq(values)}} : TRUE

(***************************************************************************)
(* The three leaf functions.                                               *)
(***************************************************************************)
\* generate_sensor_data with a key SENSOR_CONFIG does not have
generate_sensor_data_misnamed(draw) ==
    [temp      |-> round2(uniform(UNIFORM_ARGS.temperature.a,
                                  UNIFORM_ARGS.temperature.b, draw.temperature)),
     vibration |-> round2(uniform(UNIFORM_ARGS.vibration.a,
                                  UNIFORM_ARGS.vibration.b, draw.vibration)),
     voltage   |-> round2(uniform(UNIFORM_ARGS.voltage.a,
                                  UNIFORM_ARGS.voltage.b, draw.voltage))]

\* generate_sensor_data with the temperature drawn up to max + 1.5, not + 0.5
generate_sensor_data_wide(draw) ==
    [temperature |-> round2(uniform(UNIFORM_ARGS.temperature.a,
                                    UNIFORM_ARGS.temperature.b + 100, draw.temperature)),
     vibration   |-> round2(uniform(UNIFORM_ARGS.vibration.a,
                                    UNIFORM_ARGS.vibration.b, draw.vibration)),
     voltage     |-> round2(uniform(UNIFORM_ARGS.voltage.a,
                                    UNIFORM_ARGS.voltage.b, draw.voltage))]

\* draw[s] is the point at which the random source is sampled for sensor s
generate_sensor_data(draw) ==
    [temperature |-> round2(uniform(UNIFORM_ARGS.temperature.a,
                                    UNIFORM_ARGS.temperature.b, draw.temperature)),
     vibration   |-> round2(uniform(UNIFORM_ARGS.vibration.a,
                                    UNIFORM_ARGS.vibration.b, draw.vibration)),
     voltage     |-> round2(uniform(UNIFORM_ARGS.voltage.a,
                                    UNIFORM_ARGS.voltage.b, draw.voltage))]

\* detect_anomalies with <= and >= in place of < and >
detect_anomalies_inclusive(reading) ==
    IF ~(DOMAIN reading \subseteq DOMAIN SENSOR_CONFIG) THEN KeyError
    ELSE LET out == {sensor \in DOMAIN reading :
                        \/ reading[sensor] <= SENSOR_CONFIG[sensor].min
                        \/ reading[sensor] >= SENSOR_CONFIG[sensor].max}
         IN  [sensor \in out |-> reading[sensor]]

\* the dict of the out-of-range items of data; KeyError when SENSOR_CONFIG
\* has no entry for a key of data
detect_anomalies(reading) ==
    IF ~(DOMAIN reading \subseteq DOMAIN SENSOR_CONFIG) THEN KeyError
    ELSE LET out == {sensor \in DOMAIN reading :
                        \/ reading[sensor] < SENSOR_CONFIG[sensor].min
                        \/ reading[sensor] > SENSOR_CONFIG[sensor].max}
         IN  [sensor \in out |-> reading[sensor]]

\* sensor_status without the "if len(values) > 1" guard
sensor_status_unguarded(values) ==
    IF Len(values) < 2 THEN StatisticsError
    ELSE [avg |-> round2(mean(values)), std_dev |-> round_stdev(values)]

\* one sensor's entry of the status dict; an exception of mean or stdev
\* leaves the function
sensor_status(values) ==
    IF Len(values) < 1 THEN StatisticsError
    ELSE [avg     |-> round2(mean(values)),
          std_dev |-> IF Len(values) > 1 THEN round_stdev(values) ELSE 0]

\* [entry[sensor] for entry in log]
column(entries, sensor) == [k \in 1..Len(entries) |-> entries[k][sensor]]

health_status(entries) ==
    IF \E k \in 1..Len(entries) :
          ~(DOMAIN SENSOR_CONFIG \subseteq DOMAIN entries[k]) THEN KeyError
    ELSE IF \E sensor \in DOMAIN SENSOR_CONFIG :
               sensor_status(column(entries, sensor)) = StatisticsError
         THEN StatisticsError
    ELSE [sensor \in DOMAIN SENSOR_CONFIG |->
              sensor_status(column(entries, sensor))]

(***************************************************************************)
(* The driver main(), one action per statement.  pc names the statement    *)
(* about to run; i is the loop variable of "for i in range(READINGS)".     *)
(***************************************************************************)
Banner == [kind |-> "banner"]

\* the draws of a tick in a run of the driver: every sensor drawn in the
\* middle of its range, or the temperature at the start of its range, the
\* voltage at the end of its range and the vibration past the middle
TickDraws ==
    {[temperature |-> RandomSteps \div 2,
      vibration   |-> RandomSteps \div 2,
      voltage     |-> RandomSteps \div 2],
     [temperature |-> 0,
      vibration   |-> RandomSteps \div 2 + 1,
      voltage     |-> RandomSteps]}

Init ==
    /\ pc = "for"
    /\ i = 0
    /\ data = None
    /\ log = <<>>
    /\ anomalies = None
    /\ console = <<Banner>>
    /\ summary = None
    /\ file = None

\* the loop running once more: for i in range(READINGS + 1)
Generate_once_more ==
    /\ pc = "for"
    /\ i <= READINGS
    /\ \E draw \in TickDraws : data' = generate_sensor_data(draw)
    /\ pc' = "append"
    /\ UNCHANGED <<i, log, anomalies, console, summary, file>>

\* for i in range(READINGS): data = generate_sensor_data()
Generate ==
    /\ pc = "for"
    /\ i < READINGS
    /\ \E draw \in TickDraws : data' = generate_sensor_data(draw)
    /\ pc' = "append"
    /\ UNCHANGED <<i, log, anomalies, console, summary, file>>

\* log.insert(0, data) in place of log.append(data)
LogAppend_front ==
    /\ pc = "append"
    /\ log' = <<data>> \o log
    /\ pc' = "detect"
    /\ UNCHANGED <<i, data, anomalies, console, summary, file>>

\* the append left out
LogAppend_skipped ==
    /\ pc = "append"
    /\ pc' = "detect"
    /\ UNCHANGED <<i, data, log, anomalies, console, summary, file>>

\* log.append(data)
LogAppend ==
    /\ pc = "append"
    /\ log' = Append(log, data)
    /\ pc' = "detect"
    /\ UNCHANGED <<i, data, anomalies, console, summary, file>>

\* anomalies = detect_anomalies(data)
Detect ==
    /\ pc = "detect"
    /\ anomalies' = detect_anomalies(data)
    /\ pc' = IF detect_anomalies(data) = KeyError THEN "raised" ELSE "print_reading"
    /\ UNCHANGED <<i, data, log, console, summary, file>>

\* the warning printed whether or not anomalies is empty
PrintReading_always ==
    /\ pc = "print_reading"
    /\ console' = Append(console, [kind |-> "reading", number |-> i + 1, data |-> data])
    /\ pc' = "print_anomaly"
    /\ UNCHANGED <<i, data, log, anomalies, summary, file>>

\* print(f"Reading {i + 1}: {data}"); if anomalies:
PrintReading ==
    /\ pc = "print_reading"
    /\ console' = Append(console, [kind |-> "reading", number |-> i + 1, data |-> data])
    /\ pc' = IF DOMAIN anomalies # {} THEN "print_anomaly" ELSE "sleep"
    /\ UNCHANGED <<i, data, log, anomalies, summary, file>>

\* print("Anomaly Detected:", anomalies)
PrintAnomaly ==
    /\ pc = "print_anomaly"
    /\ console' = Append(console, [kind |-> "anomaly", anomalies |-> anomalies])
    /\ pc' = "sleep"
    /\ UNCHANGED <<i, data, log, anomalies, summary, file>>

\* the loop variable advanced by two
Sleep_by_two ==
    /\ pc = "sleep"
    /\ i' = i + 2
    /\ pc' = "for"
    /\ UNCHANGED <<data, log, anomalies, console, summary, file>>

\* time.sleep(DELAY_SEC), then the next iteration
Sleep ==
    /\ pc = "sleep"
    /\ i' = i + 1
    /\ pc' = "for"
    /\ UNCHANGED <<data, log, anomalies, console, summary, file>>

\* the loop is exhausted: print("Final Health Summary:")
PrintHeader ==
    /\ pc = "for"
    /\ i >= READINGS
    /\ console' = Append(console, [kind |-> "header"])
    /\ pc' = "summarize"
    /\ UNCHANGED <<i, data, log, anomalies, summary, file>>

\* summary = health_status(log)
Summarize ==
    /\ pc = "summarize"
    /\ summary' = health_status(log)
    /\ pc' = IF health_status(log) \in {KeyError, StatisticsError}
             THEN "raised" ELSE "print_summary"
    /\ UNCHANGED <<i, data, log, anomalies, console, file>>

\* print(json.dumps(summary, indent=2))
PrintSummary ==
    /\ pc = "print_summary"
    /\ console' = Append(console, [kind |-> "summary", summary |-> summary])
    /\ pc' = "write"
    /\ UNCHANGED <<i, data, log, anomalies, summary, file>>

\* json.dump({"readings": log, "summary": summary}, f); print("Data logged ...")
WriteFile ==
    /\ pc = "write"
    /\ file' = [readings |-> log, summary |-> summary]
    /\ console' = Append(console, [kind |-> "logged"])
    /\ pc' = "done"
    /\ UNCHANGED <<i, data, log, anomalies, summary>>

Next ==
    \/ Generate
    \/ LogAppend
    \/ Detect
    \/ PrintReading
    \/ PrintAnomaly
    \/ Sleep
    \/ PrintHeader
    \/ Summarize
    \/ PrintSummary
    \/ WriteFile

Spec == Init /\ [][Next]_vars

\* main() is sequential code: a statement that can run does run
FairSpec == Spec /\ WF_vars(Next)

(***************************************************************************)
(* The leaf functions called on their own, on arguments drawn from         *)
(* bounded sets: one call per behaviour.                                   *)
(***************************************************************************)
TestValues(sensor) ==
    (SENSOR_CONFIG[sensor].min - Margin .. SENSOR_CONFIG[sensor].min + Margin)
        \cup (SENSOR_CONFIG[sensor].max - Margin .. SENSOR_CONFIG[sensor].max + Margin)

\* the readings whose keys are configured sensors and whose values are
\* within Margin of a limit
TestReadings ==
    UNION {{r \in [D -> UNION {TestValues(sensor) : sensor \in D}] :
                \A sensor \in D : r[sensor] \in TestValues(sensor)} :
           D \in SUBSET DOMAIN SENSOR_CONFIG}

\* the readings of which the logs are made: the sampler's output with every
\* sensor drawn at the same point
TestEntries ==
    {generate_sensor_data([temperature |-> u, vibration |-> u, voltage |-> u]) :
        u \in 0..RandomSteps}

TestLogs == UNION {[1..n -> TestEntries] : n \in 0..MaxLog}

InitFn ==
    /\ i = 0
    /\ anomalies = None
    /\ console = <<>>
    /\ summary = None
    /\ file = None
    /\ \/ pc = "call_generate" /\ data = None /\ log = <<>>
       \/ pc = "call_detect" /\ data \in TestReadings /\ log = <<>>
       \/ pc = "call_health" /\ data = None /\ log \in TestLogs

CallGenerate ==
    /\ pc = "call_generate"
    /\ \E draw \in [DOMAIN UNIFORM_ARGS -> 0..RandomSteps] :
          data' = generate_sensor_data(draw)
    /\ pc' = "generated"
    /\ UNCHANGED <<i, log, anomalies, console, summary, file>>

CallDetect ==
    /\ pc = "call_detect"
    /\ anomalies' = detect_anomalies(data)
    /\ pc' = "detected"
    /\ UNCHANGED <<i, data, log, console, summary, file>>

CallHealth ==
    /\ pc = "call_health"
    /\ summary' = health_status(log)
    /\ pc' = "summarized"
    /\ UNCHANGED <<i, data, log, anomalies, console, file>>

NextFn ==
    \/ CallGenerate
    \/ CallDetect
    \/ CallHealth

SpecFn == InitFn /\ [][NextFn]_vars

(***************************************************************************)
(* Properties.                                                             *)
(***************************************************************************)
Sensors == {"temperature", "vibration", "voltage"}

\* the keys of a reading whose value is below min or above max
OutOfRange(reading) ==
    {sensor \in DOMAIN reading :
        \/ reading[sensor] < SENSOR_CONFIG[sensor].min
        \/ reading[sensor] > SENSOR_CONFIG[sensor].max}

\* C1: for a reading whose keys are configured sensors, detect_anomalies
\* returns a mapping whose keys are exactly the sensors with a value below
\* min or above max, each mapped to the value of the reading; a value equal
\* to min or to max is not in it, and it is empty when every value is
\* within bounds.
DetectExact ==
    pc = "detected" =>
        /\ anomalies # KeyError
        /\ DOMAIN anomalies = OutOfRange(data)
        /\ \A sensor \in DOMAIN anomalies : anomalies[sensor] = data[sensor]
        /\ \A sensor \in DOMAIN data :
              data[sensor] \in {SENSOR_CONFIG[sensor].min, SENSOR_CONFIG[sensor].max}
                  => sensor \notin DOMAIN anomalies
        /\ (\A sensor \in DOMAIN data :
               /\ data[sensor] >= SENSOR_CONFIG[sensor].min
               /\ data[sensor] <= SENSOR_CONFIG[sensor].max)
              => anomalies = <<>>

\* a full reading with one value on a limit, one below min and one above max
DetectExactWitness ==
    /\ pc = "detected"
    /\ DOMAIN data = Sensors
    /\ data.temperature = SENSOR_CONFIG.temperature.max
    /\ data.vibration = SENSOR_CONFIG.vibration.min - 1
    /\ data.voltage = SENSOR_CONFIG.voltage.max + 1
    /\ DOMAIN anomalies = {"vibration", "voltage"}

\* C7: for a log of exactly one reading health_status raises nothing and
\* returns, for every configured sensor, std_dev 0.0 and avg equal to the
\* reading's value; the sample standard deviation is not computed.
SingleReadingSummary ==
    (pc = "summarized" /\ Len(log) = 1) =>
        /\ summary \notin {KeyError, StatisticsError}
        /\ DOMAIN summary = DOMAIN SENSOR_CONFIG
        /\ \A sensor \in DOMAIN SENSOR_CONFIG :
              /\ summary[sensor].std_dev = 0
              /\ summary[sensor].avg = log[1][sensor]

SingleReadingWitness ==
    /\ pc = "summarized"
    /\ Len(log) = 1
    /\ summary \notin {KeyError, StatisticsError}
    /\ summary.voltage.std_dev = 0
    /\ summary.voltage.avg = log[1].voltage

\* the orders of the entries of a sequence of length n
Orders(n) == {p \in [1..n -> 1..n] : \A a, b \in 1..n : p[a] = p[b] => a = b}

\* C8: health_status returns the same summary for every permutation of a
\* non-empty log, and the call leaves the log as it was.
OrderIndependent ==
    /\ [](pc = "summarized" /\ Len(log) >= 1 =>
             \A p \in Orders(Len(log)) :
                 health_status([k \in 1..Len(log) |-> log[p[k]]]) = summary)
    /\ [][pc = "call_health" => log' = log]_vars

\* a summarized log of three entries, no two the same
OrderIndependentWitness ==
    /\ pc = "summarized"
    /\ Len(log) = 3
    /\ log[1] # log[2] /\ log[2] # log[3] /\ log[1] # log[3]
    /\ summary \notin {KeyError, StatisticsError}
    /\ summary.vibration.std_dev > 0

\* C9: every reading of generate_sensor_data has temperature in
\* [18.5, 24.5], vibration in [0.05, 1.1] and voltage in [108.0, 127.0], a
\* whole number of hundredths; the ranges drawn from contain the configured
\* limits strictly inside, and for every sensor the sampler can return a
\* value below min and a value above max.
GeneratedInRange ==
    /\ pc = "generated" =>
          /\ DOMAIN data = Sensors
          /\ data.temperature \in 1850..2450
          /\ data.vibration \in 5..110
          /\ data.voltage \in 10800..12700
    /\ \A sensor \in Sensors :
          /\ UNIFORM_ARGS[sensor].a < SENSOR_CONFIG[sensor].min
          /\ SENSOR_CONFIG[sensor].max < UNIFORM_ARGS[sensor].b
          /\ \E draw \in [Sensors -> 0..RandomSteps] :
                generate_sensor_data(draw)[sensor] < SENSOR_CONFIG[sensor].min
          /\ \E draw \in [Sensors -> 0..RandomSteps] :
                generate_sensor_data(draw)[sensor] > SENSOR_CONFIG[sensor].max

\* a generated reading with one sensor below min and another above max
GeneratedWitness ==
    /\ pc = "generated"
    /\ data.temperature < SENSOR_CONFIG.temperature.min
    /\ data.voltage > SENSOR_CONFIG.voltage.max
    /\ data.vibration \in SENSOR_CONFIG.vibration.min..SENSOR_CONFIG.vibration.max

\* the state of the driver: RUNNING(i) while an iteration of the loop is
\* under way or due, SUMMARIZING once the loop is exhausted, DONE at the end
Phase(at, index) ==
    IF at = "done" THEN "DONE"
    ELSE IF at \in {"summarize", "print_summary", "write"} THEN "SUMMARIZING"
    ELSE IF at = "for" /\ index >= READINGS THEN "SUMMARIZING"
    ELSE IF at = "raised" THEN "RAISED"
    ELSE "RUNNING"

\* C2: when the driver is done, the object written to the file has the keys
\* readings and summary, readings has exactly READINGS entries, and summary
\* has exactly the keys temperature, vibration and voltage, each holding a
\* numeric avg and std_dev.
FileShape ==
    pc = "done" =>
        /\ file # None
        /\ DOMAIN file = {"readings", "summary"}
        /\ Len(file.readings) = READINGS
        /\ DOMAIN file.summary = Sensors
        /\ \A sensor \in Sensors :
              /\ DOMAIN file.summary[sensor] = {"avg", "std_dev"}
              /\ file.summary[sensor].avg \in Int
              /\ file.summary[sensor].std_dev \in Int

\* a finished run whose readings differ, so that a deviation was computed
FileShapeWitness ==
    /\ pc = "done"
    /\ Len(file.readings) = READINGS
    /\ file.summary.temperature.std_dev > 0

\* C3: the driver goes RUNNING(0), RUNNING(1), ..., RUNNING(READINGS - 1),
\* SUMMARIZING, DONE: the index only grows, by one, at the end of a tick;
\* RUNNING is left only from the last tick and only for SUMMARIZING,
\* SUMMARIZING only for DONE, DONE never; the summary and the file are
\* assigned only in SUMMARIZING, after READINGS ticks; and every run
\* reaches DONE.
DriverStep ==
    /\ Phase(pc, i) = "RUNNING" /\ Phase(pc', i') = "RUNNING" =>
          \/ i' = i
          \/ i' = i + 1 /\ pc = "sleep"
    /\ Phase(pc, i) = "RUNNING" /\ Phase(pc', i') # "RUNNING" =>
          /\ Phase(pc', i') = "SUMMARIZING"
          /\ pc = "sleep"
          /\ i = READINGS - 1
          /\ i' = READINGS
    /\ Phase(pc, i) = "SUMMARIZING" =>
          /\ Phase(pc', i') \in {"SUMMARIZING", "DONE"}
          /\ i' = READINGS
          /\ Len(log') = READINGS
    /\ Phase(pc, i) = "DONE" => Phase(pc', i') = "DONE"
    /\ (summary' # summary \/ file' # file) =>
          /\ Phase(pc, i) = "SUMMARIZING"
          /\ Len(log) = READINGS

LogStep ==
    \/ log' = log
    \/ /\ pc = "append"
       /\ Len(log') = Len(log) + 1
       /\ SubSeq(log', 1, Len(log)) = log
       /\ log'[Len(log')] = data

LogCount ==
    /\ pc \in {"for", "append"} /\ i <= READINGS => Len(log) = i
    /\ pc \in {"detect", "print_reading", "print_anomaly", "sleep"} =>
          /\ Len(log) = i + 1
          /\ log[i + 1] = data
    /\ pc = "done" => file.readings = log

LogAppendOnly == []LogCount /\ [][LogStep]_vars

\* a finished run whose first two readings differ, written in their order
LogAppendOnlyWitness ==
    /\ pc = "done"
    /\ log[1] # log[2]
    /\ file.readings[1] = log[1]
    /\ file.readings[2] = log[2]

\* C5: every reading in the log, and the reading in hand, has exactly the
\* keys temperature, vibration and voltage, which are the keys of
\* SENSOR_CONFIG, and detect_anomalies never fails on a key.
ReadingKeys ==
    /\ DOMAIN SENSOR_CONFIG = Sensors
    /\ \A k \in 1..Len(log) : DOMAIN log[k] = Sensors
    /\ data # None => DOMAIN data = Sensors
    /\ anomalies # KeyError
    /\ pc # "raised"

\* detect_anomalies has returned for the third reading
ReadingKeysWitness ==
    /\ pc = "print_reading"
    /\ i = 2
    /\ Len(log) = 3
    /\ anomalies # None
    /\ DOMAIN anomalies \subseteq DOMAIN SENSOR_CONFIG

\* C6: when health_status is called the log is not empty, and the mean is
\* never taken of no data.
LogNonEmptyAtSummary ==
    /\ pc = "summarize" => Len(log) >= 1
    /\ summary # StatisticsError
    /\ pc # "raised"

\* health_status has returned from a call on a log with entries
LogNonEmptyWitness ==
    /\ pc = "print_summary"
    /\ Len(log) >= 1
    /\ summary \notin {None, KeyError, StatisticsError}

\* the lines of tick k: the reading line, then the warning when a value of
\* the reading is out of range
TickLines(k) ==
    <<[kind |-> "reading", number |-> k, data |-> log[k]]>>
        \o (IF OutOfRange(log[k]) # {}
            THEN <<[kind |-> "anomaly",
                    anomalies |-> [sensor \in OutOfRange(log[k]) |-> log[k][sensor]]]>>
            ELSE <<>>)

RECURSIVE LinesUpTo(_)
LinesUpTo(k) == IF k = 0 THEN <<Banner>> ELSE LinesUpTo(k - 1) \o TickLines(k)

\* C10: each tick prints one reading line, of the reading it sampled and
\* after appending it to the log, followed by a warning line exactly when a
\* value of that reading is out of range; the anomalies are kept neither in
\* the log nor in the file.
ConsoleLines ==
    /\ pc \in {"for", "append", "detect", "print_reading"} /\ i <= READINGS =>
          console = LinesUpTo(i)
    /\ pc = "print_anomaly" =>
          /\ Len(log) = i + 1
          /\ OutOfRange(log[i + 1]) # {}
          /\ console = LinesUpTo(i)
                          \o <<[kind |-> "reading", number |-> i + 1, data |-> log[i + 1]]>>
    /\ pc = "sleep" => Len(log) = i + 1 /\ console = LinesUpTo(i + 1)
    /\ pc \in {"summarize", "print_summary", "write", "done"} =>
          /\ Len(log) = READINGS
          /\ SubSeq(console, 1, Len(LinesUpTo(READINGS))) = LinesUpTo(READINGS)
          /\ \A k \in (Len(LinesUpTo(READINGS)) + 1)..Len(console) :
                console[k].kind \in {"header", "summary", "logged"}
    /\ \A k \in 1..Len(log) :
          DOMAIN log[k] = Sensors /\ \A sensor \in Sensors : log[k][sensor] \in Int
    /\ file # None => DOMAIN file = {"readings", "summary"} /\ file.readings = log

\* a tick with a warning line and then a tick without one
ConsoleLinesWitness ==
    /\ pc = "for"
    /\ i = 2
    /\ OutOfRange(log[1]) # {}
    /\ OutOfRange(log[2]) = {}
    /\ Len(console) = 4
    /\ console[3].kind = "anomaly"
    /\ console[4].kind = "reading"

====
